---- MODULE Spec2Model ----
(***************************************************************************)
(* Model of src/main.py (API de Consulta de Leyes Chilenas): the article-  *)
(* identifier normalizer, the XML article extractor and the layered        *)
(* article search.                                                         *)
(*                                                                         *)
(* A Python str is a sequence of one-character strings, so that lower(),   *)
(* strip(), the regular expressions and the "in" operator are computed on  *)
(* characters as the code computes them.                                   *)
(***************************************************************************)
EXTENDS Integers, Sequences, FiniteSets, TLC

(***************************************************************************)
(* Characters and Python str primitives                                    *)
(***************************************************************************)

\* Python's None; no str contains this element.
NoneVal == <<"<None>">>

\* Characters matched by \s and removed by str.strip().
Espacios == {" ", "\t", "\n"}

\* Characters matched by \d.
Digitos == {"0","1","2","3","4","5","6","7","8","9"}

DigitosSeq == <<"0","1","2","3","4","5","6","7","8","9">>

MinusculasSeq == <<"a","b","c","d","e","f","g","h","i","j","k","l","m","n","o","p","q","r","s","t","u","v","w","x","y","z","á","é","í","ó","ú","ñ","ü">>

MayusculasSeq == <<"A","B","C","D","E","F","G","H","I","J","K","L","M","N","O","P","Q","R","S","T","U","V","W","X","Y","Z","Á","É","Í","Ó","Ú","Ñ","Ü">>

\* Characters matched by [a-zA-Z].
LetrasAscii == {MinusculasSeq[i] : i \in 1..26} \cup {MayusculasSeq[i] : i \in 1..26}

\* Characters matched by a-z.
MinusculasAscii == {MinusculasSeq[i] : i \in 1..26}

\* Characters for which str.isalpha() holds (the ordinal indicators are letters).
Letras == {MinusculasSeq[i] : i \in 1..Len(MinusculasSeq)} \cup {MayusculasSeq[i] : i \in 1..Len(MayusculasSeq)} \cup {"º", "ª"}

\* Characters matched by \w in a str pattern.
CaracteresPalabra == Letras \cup Digitos \cup {"_"}

\* str.lower() on one character.
LowerChar(c) == IF \E i \in 1..Len(MayusculasSeq) : MayusculasSeq[i] = c THEN MinusculasSeq[CHOOSE i \in 1..Len(MayusculasSeq) : MayusculasSeq[i] = c] ELSE c

\* str.lower()
Lower(s) == [i \in 1..Len(s) |-> LowerChar(s[i])]

\* s[n:]
Desde(s, n) == SubSeq(s, n + 1, Len(s))

\* The position after the longest run of characters of cs that starts at position i.
FinCorrida(s, i, cs) ==
  IF \E j \in i..Len(s) : s[j] \notin cs
  THEN CHOOSE j \in i..Len(s) : s[j] \notin cs /\ \A k \in i..(j - 1) : s[k] \in cs
  ELSE IF i > Len(s) THEN i ELSE Len(s) + 1

\* The position before the longest run of characters of cs that ends at position i.
InicioCorrida(s, i, cs) ==
  IF \E j \in 1..i : s[j] \notin cs
  THEN CHOOSE j \in 1..i : s[j] \notin cs /\ \A k \in (j + 1)..i : s[k] \in cs
  ELSE 0

\* str.lstrip(chars)
LStripChars(s, cs) == Desde(s, FinCorrida(s, 1, cs) - 1)

\* str.rstrip(chars)
RStripChars(s, cs) == SubSeq(s, 1, InicioCorrida(s, Len(s), cs))

\* The positions of a sequence, in order.
Indices(s) == [i \in 1..Len(s) |-> i]

\* The elements of s at the given positions.
EnPosiciones(s, posiciones) == [k \in 1..Len(posiciones) |-> s[posiciones[k]]]

\* str.strip(chars)
StripChars(s, cs) == RStripChars(LStripChars(s, cs), cs)

\* str.strip()
Strip(s) == StripChars(s, Espacios)

\* The set of characters of a str, as strip(chars) uses its argument.
CharsOf(s) == {s[i] : i \in 1..Len(s)}

\* A lower-case literal p matched at the start of s under re.IGNORECASE.
StartsWithI(s, p) == Len(s) >= Len(p) /\ Lower(SubSeq(s, 1, Len(p))) = p

\* sub in s
Contains(s, sub) == \E i \in 0..(Len(s) - Len(sub)) : SubSeq(s, i + 1, i + Len(sub)) = sub

\* re.sub of a character class by "", and str.replace(c, "") for one character.
RemoveChars(s, cs) == SelectSeq(s, LAMBDA c : c \notin cs)

\* str.isdigit()
IsDigit(s) == s # <<>> /\ \A i \in 1..Len(s) : s[i] \in Digitos

RECURSIVE Str(_)
\* str(n) for a natural number n.
Str(n) == IF n < 10 THEN <<DigitosSeq[n + 1]>> ELSE Str(n \div 10) \o <<DigitosSeq[(n % 10) + 1]>>

RECURSIVE Join(_)
\* "".join(list)
Join(l) == IF l = <<>> THEN <<>> ELSE Head(l) \o Join(Tail(l))

\* The index of the first occurrence of sub in s at or after position from (1-based), 0 if none.
Find(s, sub, from) == LET hits == {i \in from..(Len(s) - Len(sub) + 1) : SubSeq(s, i, i + Len(sub) - 1) = sub} IN IF hits = {} THEN 0 ELSE CHOOSE i \in hits : \A j \in hits : i <= j

\* str.replace(old, "", 1)
ReplaceFirst(s, old) == LET primera == Find(s, old, 1) IN IF old = <<>> \/ primera = 0 THEN s ELSE SubSeq(s, 1, primera - 1) \o Desde(s, primera + Len(old) - 1)

(***************************************************************************)
(* Constants of the program                                                *)
(***************************************************************************)

MAX_TEXT_LENGTH == 20000

MAX_ARTICULOS_RETURNED == 15

TRUNCATION_SUFFIX == <<"\n","\n","[","T","e","x","t","o"," ","t","r","u","n","c","a","d","o"," ","p","o","r"," ","l","o","n","g","i","t","u","d"," ","e","x","c","e","s","i","v","a","]">>

\* The dictionary as the sequence of its items, in insertion order.
ROMAN_TO_INT == <<
  <<<<"i">>, 1>>, <<<<"i","i">>, 2>>, <<<<"i","i","i">>, 3>>, <<<<"i","v">>, 4>>, <<<<"v">>, 5>>,
  <<<<"v","i">>, 6>>, <<<<"v","i","i">>, 7>>, <<<<"v","i","i","i">>, 8>>, <<<<"i","x">>, 9>>, <<<<"x">>, 10>>,
  <<<<"x","i">>, 11>>, <<<<"x","i","i">>, 12>>, <<<<"x","i","i","i">>, 13>>, <<<<"x","i","v">>, 15>>, <<<<"x","v","i">>, 16>>,
  <<<<"x","v","i","i">>, 17>>, <<<<"x","v","i","i","i">>, 18>>, <<<<"x","i","x">>, 19>>, <<<<"x","x">>, 20>> >>

\* The dictionary as the sequence of its items, in insertion order.
WORDS_TO_INT == <<
  <<<<"p","r","i","m","e","r","o">>, <<"1">>>>, <<<<"s","e","g","u","n","d","o">>, <<"2">>>>, <<<<"t","e","r","c","e","r","o">>, <<"3">>>>, <<<<"c","u","a","r","t","o">>, <<"4">>>>, <<<<"q","u","i","n","t","o">>, <<"5">>>>,
  <<<<"s","e","x","t","o">>, <<"6">>>>, <<<<"s","é","p","t","i","m","o">>, <<"7">>>>, <<<<"o","c","t","a","v","o">>, <<"8">>>>, <<<<"n","o","v","e","n","o">>, <<"9">>>>, <<<<"d","é","c","i","m","o">>, <<"1","0">>>>,
  <<<<"u","n","d","é","c","i","m","o">>, <<"1","1">>>>, <<<<"d","u","o","d","é","c","i","m","o">>, <<"1","2">>>>, <<<<"d","e","c","i","m","o","t","e","r","c","e","r","o">>, <<"1","3">>>>, <<<<"d","e","c","i","m","o","c","u","a","r","t","o">>, <<"1","4">>>>, <<<<"d","e","c","i","m","o","q","u","i","n","t","o">>, <<"1","5">>>>,
  <<<<"v","i","g","é","s","i","m","o">>, <<"2","0">>>>, <<<<"t","r","i","g","é","s","i","m","o">>, <<"3","0">>>>, <<<<"c","u","a","d","r","a","g","é","s","i","m","o">>, <<"4","0">>>>, <<<<"q","u","i","n","c","u","a","g","é","s","i","m","o">>, <<"5","0">>>>,
  <<<<"ú","n","i","c","o">>, <<"u","n","i","c","o">>>>, <<<<"u","n","i","c","o">>, <<"u","n","i","c","o">>>>, <<<<"f","i","n","a","l">>, <<"f","i","n","a","l">>>> >>

\* key in d
InDict(d, k) == \E i \in 1..Len(d) : d[i][1] = k

\* d[key]
Get(d, k) == d[CHOOSE i \in 1..Len(d) : d[i][1] = k][2]

\* The value returned for a missing label.
S_N == <<"s","/","n">>

\* The value returned when no identifier can be extracted.
S_N_ERROR == <<"s","/","n","_","e","r","r","o","r","_","n","o","r","m","a","l","i","z","a","c","i","o","n">>

(***************************************************************************)
(* normalizar_numero_articulo                                              *)
(***************************************************************************)

\* Length of the match of ^(artículo|articulo|art\.?|nro\.?|n[º°]|disposición|disp\.?) under re.IGNORECASE, -1 if none.
LargoPrefijoNumero(s) ==
  IF StartsWithI(s, <<"a","r","t","í","c","u","l","o">>) THEN 8
  ELSE IF StartsWithI(s, <<"a","r","t","i","c","u","l","o">>) THEN 8
  ELSE IF StartsWithI(s, <<"a","r","t">>) THEN (IF Len(s) >= 4 /\ s[4] = "." THEN 4 ELSE 3)
  ELSE IF StartsWithI(s, <<"n","r","o">>) THEN (IF Len(s) >= 4 /\ s[4] = "." THEN 4 ELSE 3)
  ELSE IF StartsWithI(s, <<"n">>) /\ Len(s) >= 2 /\ s[2] \in {"º", "°"} THEN 2
  ELSE IF StartsWithI(s, <<"d","i","s","p","o","s","i","c","i","ó","n">>) THEN 11
  ELSE IF StartsWithI(s, <<"d","i","s","p">>) THEN (IF Len(s) >= 5 /\ s[5] = "." THEN 5 ELSE 4)
  ELSE -1

\* The text after a matched prefix of length largo and the whitespace that follows it; s if none matched (largo < 0).
QuitarPrefijo(s, largo) == IF largo < 0 THEN s ELSE LStripChars(Desde(s, largo), Espacios)

\* re.sub(r"^(artículo|articulo|art\.?|nro\.?|n[º°]|disposición|disp\.?)\s*", "", s, flags=re.IGNORECASE)
QuitarPrefijoNumero(s) == QuitarPrefijo(s, LargoPrefijoNumero(s))

\* LargoTransitorio for the pattern ^(transitorio|trans\.?), which leaves out the alternative "t".
LargoTransitorioSinT(s) ==
  IF StartsWithI(s, <<"t","r","a","n","s","i","t","o","r","i","o">>) THEN 11
  ELSE IF StartsWithI(s, <<"t","r","a","n","s">>) THEN (IF Len(s) >= 6 /\ s[6] = "." THEN 6 ELSE 5)
  ELSE -1

\* Length of the match of ^(transitorio|trans\.?|t) under re.IGNORECASE, -1 if none.
LargoTransitorio(s) ==
  IF StartsWithI(s, <<"t","r","a","n","s","i","t","o","r","i","o">>) THEN 11
  ELSE IF StartsWithI(s, <<"t","r","a","n","s">>) THEN (IF Len(s) >= 6 /\ s[6] = "." THEN 6 ELSE 5)
  ELSE IF StartsWithI(s, <<"t">>) THEN 1
  ELSE -1

\* What (.*) matches at the start of s without re.DOTALL: the characters before the first newline.
HastaFinDeLinea(s) ==
  LET finDeLinea == Find(s, <<"\n">>, 1)
  IN IF finDeLinea = 0 THEN s ELSE SubSeq(s, 1, finDeLinea - 1)

\* transitorio_match.group(2) of re.match(r"^(transitorio|trans\.?|t)\s*(.*)", s, flags=re.IGNORECASE)
GrupoTransitorio(s) == HastaFinDeLinea(LStripChars(Desde(s, LargoTransitorio(s)), Espacios))

\* The positions where re.search(r'\b' + re.escape(palabra) + r'\b', s) can match for a key of
\* WORDS_TO_INT. A key is made of \w characters only, so \bkey\b matches exactly a maximal run
\* of \w characters that equals the key.
InicioPalabras(s) ==
  {a \in 1..Len(s) : /\ s[a] \in CaracteresPalabra
                     /\ (a = 1 \/ s[a - 1] \notin CaracteresPalabra)
                     /\ InDict(WORDS_TO_INT, SubSeq(s, a, FinCorrida(s, a, CaracteresPalabra) - 1))}

\* A mark for a position that a substitution leaves empty.
Borrado == "<borrado>"

\* The character that the value digito leaves at offset k of its key.
CaracterDe(digito, k) == IF k <= Len(digito) THEN digito[k] ELSE Borrado

\* s with the value of each key that starts at a position of inicios written over the key.
SobrescribirPalabras(s, inicios) ==
  IF inicios = {} THEN s
  ELSE SelectSeq([i \in 1..Len(s) |->
                    IF \E a \in inicios : a <= i /\ i < FinCorrida(s, a, CaracteresPalabra)
                    THEN CaracterDe(Get(WORDS_TO_INT, SubSeq(s, InicioCorrida(s, i, CaracteresPalabra) + 1, FinCorrida(s, i, CaracteresPalabra) - 1)),
                                    i - InicioCorrida(s, i, CaracteresPalabra))
                    ELSE s[i]],
                 LAMBDA c : c # Borrado)

\* The loop over WORDS_TO_INT.items() with its re.sub(r'\b' + re.escape(palabra) + r'\b', digito, s).
\* No value of the dictionary is longer than its key, and no substitution makes or unmakes a match of
\* another key (the only value that is a key, "unico", maps to itself), so the loop amounts to
\* writing each value over its key in place.
ReemplazarPalabras(s) == SobrescribirPalabras(s, InicioPalabras(s))

RECURSIVE PartesNumericas(_, _)
\* re.findall(r"(\d+)\s*([a-zA-Z]*)", s), from position pos on.
PartesNumericas(s, pos) ==
  LET ds == {i \in pos..Len(s) : s[i] \in Digitos}
  IN IF ds = {} THEN <<>>
     ELSE LET iniNum == CHOOSE x \in ds : \A y \in ds : x <= y
              finNum == FinCorrida(s, iniNum, Digitos)
              iniLetra == FinCorrida(s, finNum, Espacios)
              finLetra == FinCorrida(s, iniLetra, LetrasAscii)
          IN << <<SubSeq(s, iniNum, finNum - 1), SubSeq(s, iniLetra, finLetra - 1)>> >> \o PartesNumericas(s, finLetra)

\* The component built from one (num_part, letra_part) pair.
Componente(p) ==
  IF p[2] # <<>> /\ (p[2] \in {<<"b","i","s">>, <<"t","e","r">>, <<"q","u","a","t","e","r">>} \/ (Len(p[2]) = 1 /\ p[2][1] \in Letras))
  THEN p[1] \o p[2]
  ELSE p[1]

RECURSIVE TextoRestante(_, _)
\* texto_restante after the loop over partes_numericas.
TextoRestante(t, partes) ==
  IF partes = <<>> THEN t
  ELSE TextoRestante(Strip(ReplaceFirst(ReplaceFirst(t, Head(partes)[1]), Head(partes)[2])), Tail(partes))

\* re.sub(r"[^a-z0-9]", "", s.replace(" ", "")).strip()
IdFinalSinPrefijo(s) == Strip(SelectSeq(RemoveChars(s, {" "}), LAMBDA c : c \in MinusculasAscii \cup Digitos))

\* Lines 153-162: the value returned for id_final.
Devolver(prefijo_transitorio, s, id_final) ==
  IF StripChars(id_final, CharsOf(prefijo_transitorio)) = <<>>
  THEN IF IdFinalSinPrefijo(s) = <<>> THEN S_N_ERROR
       ELSE IF prefijo_transitorio \o IdFinalSinPrefijo(s) # <<>> THEN prefijo_transitorio \o IdFinalSinPrefijo(s)
       ELSE S_N
  ELSE IF id_final # <<>> THEN id_final
  ELSE S_N

\* Line 152: id_final = prefijo_transitorio + "".join(componentes_normalizados)
IdFinal(prefijo_transitorio, s, componentes_normalizados) ==
  Devolver(prefijo_transitorio, s, prefijo_transitorio \o Join(componentes_normalizados))

\* Lines 142-150: without a numeric part, what is left of the text is the only component, as the
\* value of a roman numeral if it is a key of ROMAN_TO_INT and verbatim otherwise.
ConComponentes(prefijo_transitorio, s, componentes_normalizados, texto_restante) ==
  IF componentes_normalizados = <<>> /\ texto_restante # <<>>
  THEN IF InDict(ROMAN_TO_INT, RemoveChars(texto_restante, {" "}))
       THEN IdFinal(prefijo_transitorio, s, <<Str(Get(ROMAN_TO_INT, RemoveChars(texto_restante, {" "})))>>)
       ELSE IdFinal(prefijo_transitorio, s, <<RemoveChars(texto_restante, {" "})>>)
  ELSE IdFinal(prefijo_transitorio, s, componentes_normalizados)

\* Lines 130-139: the components and the remaining text of the numeric parts.
ConPartesNumericas(prefijo_transitorio, s, partes_numericas) ==
  ConComponentes(prefijo_transitorio, s,
                 [i \in 1..Len(partes_numericas) |-> Componente(partes_numericas[i])],
                 TextoRestante(s, partes_numericas))

\* Line 129: partes_numericas = re.findall(r"(\d+)\s*([a-zA-Z]*)", s)
TrasLimpieza(prefijo_transitorio, s) == ConPartesNumericas(prefijo_transitorio, s, PartesNumericas(s, 1))

\* Lines 117-127: the words replaced, the ordinal marks and the punctuation removed.
TrasTransitorio(prefijo_transitorio, s) ==
  TrasLimpieza(prefijo_transitorio, Strip(RStripChars(Strip(RemoveChars(ReemplazarPalabras(s), {"º", "°", "ª", ".", ","})), {"-"})))

\* Lines 102-114: the lookups in the tables, then the transitorio prefix.
TrasPrefijo(s) ==
  IF InDict(WORDS_TO_INT, s) THEN Get(WORDS_TO_INT, s)
  ELSE IF InDict(ROMAN_TO_INT, s) THEN Str(Get(ROMAN_TO_INT, s))
  ELSE TrasTransitorio(IF LargoTransitorio(s) >= 0 THEN <<"t">> ELSE <<>>,
                       IF LargoTransitorio(s) >= 0 THEN Strip(RStripChars(Strip(GrupoTransitorio(s)), {".", "-"})) ELSE s)

\* normalizar_numero_articulo(num_str)
normalizar_numero_articulo(num_str) ==
  IF num_str = NoneVal \/ num_str = <<>> THEN S_N
  ELSE TrasPrefijo(Strip(RStripChars(Strip(QuitarPrefijoNumero(Strip(Lower(num_str)))), {".", "-"})))
(***************************************************************************)
(* limpiar_texto                                                           *)
(***************************************************************************)

\* Characters matched by [ \t].
Blancos == {" ", "\t"}

\* re.sub(r"[ \t]+", " ", texto): each run of blanks becomes one space.
ColapsarBlancos(s) ==
  LET un_espacio == [i \in 1..Len(s) |-> IF s[i] = "\t" THEN " " ELSE s[i]]
  IN EnPosiciones(un_espacio, SelectSeq(Indices(s), LAMBDA i : s[i] \notin Blancos \/ i = 1 \/ s[i - 1] \notin Blancos))

\* Whether a newline of s precedes position i in the same run of whitespace.
SaltoAntes(s, i) == \E j \in 1..(i - 1) : s[j] = "\n" /\ \A m \in j..i : s[m] \in Espacios

\* Whether position i or a later position of the same run of whitespace holds a newline.
SaltoDesde(s, i) == \E j \in i..Len(s) : s[j] = "\n" /\ \A m \in i..j : s[m] \in Espacios

\* re.sub(r"\n\s*\n+", "\n", txt): the leftmost match in a run of whitespace goes from its first
\* newline to its last one, and only its first newline is kept.
ColapsarLineas(s) == EnPosiciones(s, SelectSeq(Indices(s), LAMBDA i : ~(SaltoAntes(s, i) /\ SaltoDesde(s, i))))

\* "\n".join(line.strip() for line in txt.split("\n")): a blank is dropped when only blanks
\* lie between it and the start or the end of its line.
StripLineas(s) ==
  EnPosiciones(s, SelectSeq(Indices(s), LAMBDA i :
     \/ s[i] \notin Blancos
     \/ /\ \E j \in 1..i : s[j] \notin Blancos /\ \A m \in j..i : s[m] # "\n"
        /\ \E j \in i..Len(s) : s[j] \notin Blancos /\ \A m \in i..j : s[m] # "\n"))

\* limpiar_texto(texto)
limpiar_texto(texto) ==
  IF texto = NoneVal \/ texto = <<>> THEN <<>>
  ELSE Strip(StripLineas(ColapsarLineas(ColapsarBlancos(texto))))

(***************************************************************************)
(* extraer_referencias_legales                                             *)
(***************************************************************************)

\* Characters matched by [\d\.].
DigitosYPunto == Digitos \cup {"."}

\* \b before the letter at position p: no word character stands before it.
LimitePalabra(s, p) == p = 1 \/ s[p - 1] \notin CaracteresPalabra

\* Whether position p of s holds a character of cs.
HayEn(s, p, cs) == p >= 1 /\ p <= Len(s) /\ s[p] \in cs

\* The position after the match at p of an optional character of cs: X?
TrasOpcional(s, p, cs) == IF HayEn(s, p, cs) THEN p + 1 ELSE p

\* The position after the match of [\d\.]+ at p, 0 when it does not match.
FinCorridaNumero(s, p) == IF HayEn(s, p, DigitosYPunto) THEN FinCorrida(s, p, DigitosYPunto) ELSE 0

\* The position after the match of \s*[\d\.]+ at p, 0 when it does not match.
FinNumeroLey(s, p) == FinCorridaNumero(s, FinCorrida(s, p, Espacios))

\* The position after the match of (?:[°ºªo]|\.?)?\s*[\d\.]+ at p, 0 when it does not match. A full
\* stop at p is first taken by \.? and, when no number follows it, given back to [\d\.]+.
FinSimboloYNumero(s, p) ==
  IF HayEn(s, p, {"°", "º", "ª", "o"}) THEN FinNumeroLey(s, p + 1)
  ELSE IF HayEn(s, p, {"."}) /\ FinNumeroLey(s, p + 1) > 0 THEN FinNumeroLey(s, p + 1)
  ELSE FinNumeroLey(s, p)

\* The position after the match of \b[Ll]ey\s+N?(?:[°ºªo]|\.?)?\s*[\d\.]+ at p, 0 when it does not match.
FinLey(s, p) ==
  IF /\ LimitePalabra(s, p)
     /\ HayEn(s, p, {"L", "l"}) /\ HayEn(s, p + 1, {"e"}) /\ HayEn(s, p + 2, {"y"})
     /\ HayEn(s, p + 3, Espacios)
  THEN FinSimboloYNumero(s, TrasOpcional(s, FinCorrida(s, p + 3, Espacios), {"N"}))
  ELSE 0

\* The position after the match of \d{minimo,6} at p, 0 when it does not match.
FinDigitos(s, p, minimo) ==
  IF FinCorrida(s, p, Digitos) - p < minimo THEN 0
  ELSE IF FinCorrida(s, p, Digitos) - p > 6 THEN p + 6
  ELSE FinCorrida(s, p, Digitos)

\* The position after the match of N[°º]?\s*\d{minimo,6} at p, 0 when it does not match.
FinNYDigitos(s, p, minimo) ==
  IF HayEn(s, p, {"N"}) THEN FinDigitos(s, FinCorrida(s, TrasOpcional(s, p + 1, {"°", "º"}), Espacios), minimo)
  ELSE 0

\* The position after the match of \b[Dd][Ss]?\s*N[°º]?\s*\d{3,6} at p, 0 when it does not match.
FinDS(s, p) ==
  IF LimitePalabra(s, p) /\ HayEn(s, p, {"D", "d"})
  THEN FinNYDigitos(s, FinCorrida(s, TrasOpcional(s, p + 1, {"S", "s"}), Espacios), 3)
  ELSE 0

\* The position after the match of \b[Dd][Ff][Ll]?\s*N[°º]?\s*\d{1,6} at p, 0 when it does not match.
FinDFL(s, p) ==
  IF LimitePalabra(s, p) /\ HayEn(s, p, {"D", "d"}) /\ HayEn(s, p + 1, {"F", "f"})
  THEN FinNYDigitos(s, FinCorrida(s, TrasOpcional(s, p + 2, {"L", "l"}), Espacios), 1)
  ELSE 0

\* The position after the match of the pattern at p, its alternatives tried in order; 0 when none matches.
FinCita(s, p) ==
  IF FinLey(s, p) > 0 THEN FinLey(s, p)
  ELSE IF FinDS(s, p) > 0 THEN FinDS(s, p)
  ELSE FinDFL(s, p)

\* The positions at which the pattern matches.
InicioCitas(texto) == SelectSeq(Indices(texto), LAMBDA p : FinCita(texto, p) > 0)

\* The matches that start at the positions inicios.
CitasEn(texto, inicios) == [k \in 1..Len(inicios) |-> SubSeq(texto, inicios[k], FinCita(texto, inicios[k]) - 1)]

\* re.findall(pattern, texto): the matches from left to right. No match holds the start of another
\* one, since after its first letter a match has no L, l, D or d that follows a non-word character.
Citas(texto) == CitasEn(texto, InicioCitas(texto))

\* set([limpiar_texto(r) for r in refs])
Limpias(refs) == {limpiar_texto(refs[k]) : k \in 1..Len(refs)}

\* extraer_referencias_legales(texto): list(set(...)) of the cleaned matches. The order of the list
\* is the iteration order of the set, which the code does not fix; the model keeps the set.
extraer_referencias_legales(texto) == Limpias(Citas(texto))

(***************************************************************************)
(* extraer_articulos                                                       *)
(***************************************************************************)

\* The display used when no number is found.
SinNumero == <<"S","/","N">>

\* Length of the match of ^(artículo|articulo|art\.?) under re.IGNORECASE, -1 if none.
LargoPrefijoArticulo(s) ==
  IF StartsWithI(s, <<"a","r","t","í","c","u","l","o">>) THEN 8
  ELSE IF StartsWithI(s, <<"a","r","t","i","c","u","l","o">>) THEN 8
  ELSE IF StartsWithI(s, <<"a","r","t">>) THEN (IF Len(s) >= 4 /\ s[4] = "." THEN 4 ELSE 3)
  ELSE -1

\* re.sub(r"^(artículo|articulo|art\.?)\s*", "", display_temp, flags=re.IGNORECASE)
QuitarPrefijoArticulo(s) == QuitarPrefijo(s, LargoPrefijoArticulo(s))

\* Characters matched by [\w\d\s].
CaracteresEtiqueta == CaracteresPalabra \cup Espacios

\* The en dash (U+2013), written by name.
EnDash == "<U+2013>"

\* The em dash (U+2014), written by name.
EmDash == "<U+2014>"

\* Characters matched by [\.\-\u2013\u2014:].
Delimitadores == {".", "-", EnDash, EmDash, ":"}

\* Where group 1 starts: after the leading whitespace, or at its last character when no label character follows it.
InicioEtiqueta(s) ==
  LET trasBlancos == FinCorrida(s, 1, Espacios)
  IN IF trasBlancos <= Len(s) /\ s[trasBlancos] \in CaracteresPalabra THEN trasBlancos
     ELSE IF trasBlancos > 1 THEN trasBlancos - 1
     ELSE 0

\* Length of the match of art(?:ículo|iculo)? at the start of resto under re.IGNORECASE, 0 if none.
LargoArt(resto) ==
  IF StartsWithI(resto, <<"a","r","t","í","c","u","l","o">>) THEN 8
  ELSE IF StartsWithI(resto, <<"a","r","t","i","c","u","l","o">>) THEN 8
  ELSE IF StartsWithI(resto, <<"a","r","t">>) THEN 3
  ELSE 0

\* The position after \. matched at position q, 0 if it does not match.
FinPunto(s, q) == IF q <= Len(s) /\ s[q] = "." THEN q + 1 ELSE 0

\* The position after s?\. matched at position q under re.IGNORECASE, 0 if it does not match.
FinSConPunto(s, q) == FinPunto(s, IF q <= Len(s) /\ LowerChar(s[q]) = "s" THEN q + 1 ELSE q)

\* The position after art(?:ículo|iculo)?s?\. matched at position p under re.IGNORECASE, 0 if it does not match.
FinPrefijoConPunto(s, p) == IF LargoArt(Desde(s, p - 1)) = 0 THEN 0 ELSE FinSConPunto(s, p + LargoArt(Desde(s, p - 1)))

\* The position after [\w\d\s]+ matched after the prefix with its period, which ends before
\* trasPunto, if the prefix matched (trasPunto > 0) and a label character follows it; otherwise
\* the position after [\w\d\s]+ matched from inicio.
FinEtiquetaTras(s, inicio, trasPunto) ==
  IF trasPunto > 0 /\ FinCorrida(s, trasPunto, CaracteresEtiqueta) > trasPunto THEN FinCorrida(s, trasPunto, CaracteresEtiqueta)
  ELSE FinCorrida(s, inicio, CaracteresEtiqueta)

\* The position after group 1 when it starts at inicio, 0 if the pattern does not match (inicio = 0).
FinEtiquetaDesde(s, inicio) == IF inicio = 0 THEN 0 ELSE FinEtiquetaTras(s, inicio, FinPrefijoConPunto(s, inicio))

\* The position after group 1, 0 if the pattern does not match. The optional prefix is kept
\* with its period only if a label character follows it; otherwise [\w\d\s]+ runs from the start.
FinEtiqueta(s) == FinEtiquetaDesde(s, InicioEtiqueta(s))

\* Whether the pattern matches, group(1) and group(3), for a group 1 from iniG1 to before finG1:
\* group 3 starts after the delimiter and its whitespace, if there is a delimiter at finG1.
Grupos(texto, iniG1, finG1) ==
  IF iniG1 = 0 THEN [ok |-> FALSE, g1 |-> <<>>, g3 |-> <<>>]
  ELSE [ok |-> TRUE,
        g1 |-> SubSeq(texto, iniG1, finG1 - 1),
        g3 |-> IF finG1 <= Len(texto) /\ texto[finG1] \in Delimitadores
               THEN Desde(texto, FinCorrida(texto, finG1 + 1, Espacios) - 1)
               ELSE Desde(texto, finG1 - 1)]

\* re.match(r"^\s*((?:art(?:ículo|iculo)?s?\.?\s*)?[\w\d\s]+(?:bis|ter|quater)?)\s*([\.\-\u2013\u2014:]\s*)?(.*)", texto, re.IGNORECASE | re.DOTALL):
\* whether it matches, group(1) and group(3).
MatchNumeroEnTexto(texto) == Grupos(texto, InicioEtiqueta(texto), FinEtiqueta(texto))

\* s.rsplit(' ', 1)[0]
RSplitEspacio(s) ==
  LET blancos == {i \in 1..Len(s) : s[i] = " "}
  IN IF blancos = {} THEN s ELSE SubSeq(s, 1, (CHOOSE x \in blancos : \A y \in blancos : y <= x) - 1)

\* The label taken from Metadatos/TituloParte, else Metadatos/NombreParte, else "S/N".
\* A field is NoneVal when its tag is absent or has no text.
DisplayMetadatos(ef) ==
  IF ef.TituloParte # NoneVal /\ ef.TituloParte # <<>> /\ Strip(ef.TituloParte) # <<>> THEN limpiar_texto(ef.TituloParte)
  ELSE IF ef.NombreParte # NoneVal /\ ef.NombreParte # <<>> /\ Strip(ef.NombreParte) # <<>> THEN limpiar_texto(ef.NombreParte)
  ELSE SinNumero

\* texto_tag.text.strip() if texto_tag is not None and texto_tag.text else ""
TextoCompleto(ef) == IF ef.Texto # NoneVal /\ ef.Texto # <<>> THEN Strip(ef.Texto) ELSE <<>>

\* Whether the label is taken from the start of the text instead of the metadata.
UsaTexto(display) == display = SinNumero \/ ~IsDigit(normalizar_numero_articulo(display))

\* Lines 305-308: texto_neto_articulo for the label taken from the text.
TextoNeto(texto_completo_articulo, numero_display_extraido, grupo3) ==
  IF grupo3 # <<>> /\ Strip(grupo3) # <<>> THEN Strip(grupo3)
  ELSE IF numero_display_extraido # texto_completo_articulo THEN <<>>
  ELSE texto_completo_articulo

\* Lines 302-308: numero_display_extraido and texto_neto_articulo taken from the match.
DelTexto(texto_completo_articulo, numero_display_extraido, grupo3) ==
  [display |-> numero_display_extraido, texto |-> TextoNeto(texto_completo_articulo, numero_display_extraido, grupo3)]

\* Lines 296-308: numero_display_extraido and texto_neto_articulo for the label of the metadata,
\* the text and the match on the text.
ElegirDisplayYTexto(meta, texto_completo_articulo, match_numero_en_texto) ==
  IF UsaTexto(meta) /\ match_numero_en_texto.ok
  THEN DelTexto(texto_completo_articulo,
                Strip(RStripChars(Strip(QuitarPrefijoArticulo(Strip(match_numero_en_texto.g1))), {".", "-"})),
                match_numero_en_texto.g3)
  ELSE [display |-> meta, texto |-> texto_completo_articulo]

\* numero_display_extraido and texto_neto_articulo after the attempt on the start of the text.
DisplayYTexto(ef) == ElegirDisplayYTexto(DisplayMetadatos(ef), TextoCompleto(ef), MatchNumeroEnTexto(TextoCompleto(ef)))

\* Lines 311-312: the placeholder display made of the idParte.
ConIdParte(numero_display_extraido, id_parte_xml) ==
  IF numero_display_extraido = SinNumero /\ id_parte_xml # NoneVal /\ id_parte_xml # <<>> THEN <<"I","D","P","a","r","t","e","-">> \o id_parte_xml
  ELSE numero_display_extraido

\* numero_display_extraido of one EstructuraFuncional, with the idParte placeholder.
NumeroDisplay(ef) == ConIdParte(DisplayYTexto(ef).display, ef.idParte)

\* Lines 321-323: the text cut at MAX_TEXT_LENGTH.
Truncar(texto_final_limpio) ==
  IF Len(texto_final_limpio) > MAX_TEXT_LENGTH THEN RSplitEspacio(SubSeq(texto_final_limpio, 1, MAX_TEXT_LENGTH)) \o TRUNCATION_SUFFIX
  ELSE texto_final_limpio

\* texto_final_limpio for texto_neto_articulo.
TextoFinal(texto_neto_articulo) == Truncar(limpiar_texto(texto_neto_articulo))

\* Lines 325-333: the Articulo built for a display, its canonical id, the final text and the idParte;
\* nota_busqueda keeps its default, None.
ConReferencias(numero_display_extraido, numero_id_interno, texto_final_limpio, id_parte_xml) ==
  [articulo_display |-> numero_display_extraido,
   articulo_id_interno |-> numero_id_interno,
   texto |-> texto_final_limpio,
   referencias_legales |-> extraer_referencias_legales(texto_final_limpio),
   id_parte_xml |-> id_parte_xml,
   nota_busqueda |-> NoneVal]

\* Lines 314-333: the Articulo of a display, a text and an idParte.
Construir(numero_display_extraido, texto_neto_articulo, id_parte_xml) ==
  ConReferencias(numero_display_extraido, normalizar_numero_articulo(numero_display_extraido), TextoFinal(texto_neto_articulo), id_parte_xml)

\* The Articulo of an idParte and the display and text found for its node.
ArticuloDe(id_parte_xml, display_y_texto) ==
  Construir(ConIdParte(display_y_texto.display, id_parte_xml), display_y_texto.texto, id_parte_xml)

\* The Articulo built from one EstructuraFuncional.
Articulo(ef) == ArticuloDe(ef.idParte, DisplayYTexto(ef))

\* Omitido for a loop without the "continue" of line 318.
NuncaOmitido(articulo) == FALSE

\* Whether the loop skips the node of this Articulo.
Omitido(articulo) == articulo.articulo_id_interno = S_N_ERROR

\* The value of the tipoParte attribute selected by root.findall.
TipoArticulo == "Artículo"

\* The Articulo of each node, in order.
Candidatos(nodos) == [k \in 1..Len(nodos) |-> Articulo(nodos[k])]

\* extraer_articulos over the EstructuraFuncional nodes of a well-formed document, in document order.
extraer_articulos(nodos) ==
  SelectSeq(Candidatos(SelectSeq(nodos, LAMBDA ef : ef.tipoParte = TipoArticulo)), LAMBDA articulo : ~Omitido(articulo))

(***************************************************************************)
(* buscar_articulo_avanzado                                                *)
(***************************************************************************)

\* str(x) for an optional str.
StrOpcional(x) == IF x = NoneVal THEN <<"N","o","n","e">> ELSE x

\* PorIdInterno for a comparison of art_normalizado with articulo_display.
PorIdInternoEnDisplay(articulos, art_normalizado) ==
  SelectSeq(Indices(articulos), LAMBDA i : articulos[i].articulo_display = art_normalizado)

\* 1. The positions of [a for a in articulos if a.articulo_id_interno == art_normalizado]
PorIdInterno(articulos, art_normalizado) ==
  SelectSeq(Indices(articulos), LAMBDA i : articulos[i].articulo_id_interno = art_normalizado)

\* 2. The positions of [a for a in articulos if articulo_buscado_lower_strip == a.articulo_display.strip().lower()]
PorDisplay(articulos, articulo_buscado_lower_strip) ==
  SelectSeq(Indices(articulos), LAMBDA i : articulo_buscado_lower_strip = Lower(Strip(articulos[i].articulo_display)))

\* 3. The positions of [a for a in articulos if str(a.id_parte_xml) == articulo_buscado], tried only if articulo_buscado.isdigit()
PorIdParte(articulos, articulo_buscado) ==
  IF IsDigit(articulo_buscado)
  THEN SelectSeq(Indices(articulos), LAMBDA i : StrOpcional(articulos[i].id_parte_xml) = articulo_buscado)
  ELSE <<>>

\* 4. The textual search in the display or in the text.
PorTexto(articulos, articulo_buscado_lower_strip, art_normalizado) ==
  SelectSeq(Indices(articulos), LAMBDA i :
     \/ Contains(Lower(articulos[i].texto), articulo_buscado_lower_strip)
     \/ Contains(Lower(articulos[i].articulo_display), articulo_buscado_lower_strip)
     \/ (art_normalizado # S_N /\ art_normalizado # S_N_ERROR /\ Contains(Lower(articulos[i].texto), art_normalizado)))

\* The values given to nota_busqueda.
NotaDisplay == <<"B","ú","s","q","u","e","d","a"," ","p","o","r"," ","d","i","s","p","l","a","y"," ","e","x","a","c","t","o">>

NotaIdParte == <<"B","ú","s","q","u","e","d","a"," ","p","o","r"," ","i","d","_","p","a","r","t","e","_","x","m","l">>

NotaTexto == <<"B","ú","s","q","u","e","d","a"," ","t","e","x","t","u","a","l"," ","(","n","o"," ","c","o","i","n","c","i","d","i","ó"," ","i","d","e","n","t","i","f","i","c","a","d","o","r"," ","e","x","a","c","t","o",")">>

\* The messages of logger.info and logger.warning that tell which step answered.
LogIdInterno == "Encontrado por ID interno exacto"

LogDisplay == "Encontrado por display exacto"

LogIdParte == "Encontrado por id_parte_xml"

LogTexto == "Encontrado por búsqueda textual"

LogNoEncontrado == "Artículo no encontrado"

\* The detail of the HTTPException(404), without the suggestions of get_close_matches.
DetalleNoEncontrado(articulos, articulo_buscado, art_normalizado) ==
  [articulo_buscado |-> articulo_buscado,
   art_normalizado |-> art_normalizado,
   ids_disponibles_muestra |-> [i \in 1..(IF Len(articulos) < 15 THEN Len(articulos) ELSE 15) |-> articulos[i].articulo_id_interno],
   displays_disponibles_muestra |-> [i \in 1..(IF Len(articulos) < 15 THEN Len(articulos) ELSE 15) |-> articulos[i].articulo_display]]

\* The detail of an answer that is not an error.
SinDetalle == [articulo_buscado |-> <<>>, art_normalizado |-> <<>>, ids_disponibles_muestra |-> <<>>, displays_disponibles_muestra |-> <<>>]

\* Pasos with the textual search tried before the search by id_parte_xml.
PasosTextoAntes(articulos, articulo_buscado, art_normalizado, articulo_buscado_lower_strip) ==
  IF PorIdInterno(articulos, art_normalizado) # <<>>
  THEN [status |-> 200, devueltos |-> PorIdInterno(articulos, art_normalizado), nota |-> NoneVal, log |-> LogIdInterno, detail |-> SinDetalle]
  ELSE IF PorDisplay(articulos, articulo_buscado_lower_strip) # <<>>
  THEN [status |-> 200, devueltos |-> PorDisplay(articulos, articulo_buscado_lower_strip), nota |-> NotaDisplay, log |-> LogDisplay, detail |-> SinDetalle]
  ELSE IF PorTexto(articulos, articulo_buscado_lower_strip, art_normalizado) # <<>>
  THEN [status |-> 200, devueltos |-> PorTexto(articulos, articulo_buscado_lower_strip, art_normalizado), nota |-> NotaTexto, log |-> LogTexto, detail |-> SinDetalle]
  ELSE IF PorIdParte(articulos, articulo_buscado) # <<>>
  THEN [status |-> 200, devueltos |-> PorIdParte(articulos, articulo_buscado), nota |-> NotaIdParte, log |-> LogIdParte, detail |-> SinDetalle]
  ELSE [status |-> 404, devueltos |-> <<>>, nota |-> NoneVal, log |-> LogNoEncontrado, detail |-> DetalleNoEncontrado(articulos, articulo_buscado, art_normalizado)]

\* Lines 343-393: the four steps in order, each tried only if the ones before it found nothing: the
\* status, the positions in articulos of the returned objects, the note written on them (NoneVal
\* if none is written), the log message and the detail of the exception.
Pasos(articulos, articulo_buscado, art_normalizado, articulo_buscado_lower_strip) ==
  IF PorIdInterno(articulos, art_normalizado) # <<>>
  THEN [status |-> 200, devueltos |-> PorIdInterno(articulos, art_normalizado), nota |-> NoneVal, log |-> LogIdInterno, detail |-> SinDetalle]
  ELSE IF PorDisplay(articulos, articulo_buscado_lower_strip) # <<>>
  THEN [status |-> 200, devueltos |-> PorDisplay(articulos, articulo_buscado_lower_strip), nota |-> NotaDisplay, log |-> LogDisplay, detail |-> SinDetalle]
  ELSE IF PorIdParte(articulos, articulo_buscado) # <<>>
  THEN [status |-> 200, devueltos |-> PorIdParte(articulos, articulo_buscado), nota |-> NotaIdParte, log |-> LogIdParte, detail |-> SinDetalle]
  ELSE IF PorTexto(articulos, articulo_buscado_lower_strip, art_normalizado) # <<>>
  THEN [status |-> 200, devueltos |-> PorTexto(articulos, articulo_buscado_lower_strip, art_normalizado), nota |-> NotaTexto, log |-> LogTexto, detail |-> SinDetalle]
  ELSE [status |-> 404, devueltos |-> <<>>, nota |-> NoneVal, log |-> LogNoEncontrado, detail |-> DetalleNoEncontrado(articulos, articulo_buscado, art_normalizado)]

\* buscar_articulo_avanzado(articulos, articulo_buscado)
buscar_articulo_avanzado(articulos, articulo_buscado) ==
  Pasos(articulos, articulo_buscado, normalizar_numero_articulo(articulo_buscado), Lower(Strip(articulo_buscado)))

\* ConNotas for loops that assign no nota_busqueda.
SinNotas(articulos, devueltos, nota) == articulos

\* The list after "for r in posibles: r.nota_busqueda = nota": the returned objects are those of the list.
ConNotas(articulos, devueltos, nota) ==
  [i \in 1..Len(articulos) |->
     IF nota # NoneVal /\ \E k \in 1..Len(devueltos) : devueltos[k] = i
     THEN [articulos[i] EXCEPT !.nota_busqueda = nota]
     ELSE articulos[i]]

(***************************************************************************)
(* Bounds and inputs                                                       *)
(***************************************************************************)

\* The most words a label under normalization is made of.
MaxPalabras == 2

\* The most articles in a list handed to the search.
MaxArticulos == 3

\* The most EstructuraFuncional nodes in a document.
MaxNodos == 3

\* str.upper()
Upper(s) == [i \in 1..Len(s) |-> IF \E k \in 1..Len(MinusculasSeq) : MinusculasSeq[k] = s[i] THEN MayusculasSeq[CHOOSE k \in 1..Len(MinusculasSeq) : MinusculasSeq[k] = s[i]] ELSE s[i]]

\* The words labels are made of.
Palabras == {<<"A","r","t","í","c","u","l","o">>, <<"a","r","t">>, <<"P","r","i","m","e","r","o">>, <<"p","r","i","m","e","r","o">>, <<"T","r","a","n","s","i","t","o","r","i","o">>, <<"t","r","a","n","s","i","t","o","r","i","o">>, <<"t">>, <<"x","v">>, <<"X","I","V">>, <<"x">>, <<"v">>,
             <<"1">>, <<"5">>, <<"b","i","s">>, <<"!","!","!">>, <<"-">>, <<"/">>, <<"p","r","i">>, <<"m","e","r","o">>, <<"S","/","N">>, <<"F","i","n","a","l">>, <<"t","e","r","c","e","r","o">>, <<"t","í","t","u","l","o">>}

RECURSIVE UnirPalabras(_)
\* " ".join(palabras)
UnirPalabras(ps) == IF ps = <<>> THEN <<>> ELSE IF Len(ps) = 1 THEN ps[1] ELSE ps[1] \o <<" ">> \o UnirPalabras(Tail(ps))

\* The roman numerals i to xx; the numeral at position n stands for n.
NumerosRomanos == <<<<"i">>, <<"i","i">>, <<"i","i","i">>, <<"i","v">>, <<"v">>, <<"v","i">>, <<"v","i","i">>, <<"v","i","i","i">>, <<"i","x">>, <<"x">>,
                    <<"x","i">>, <<"x","i","i">>, <<"x","i","i","i">>, <<"x","i","v">>, <<"x","v">>, <<"x","v","i">>, <<"x","v","i","i">>, <<"x","v","i","i","i">>, <<"x","i","x">>, <<"x","x">>>>

\* A roman numeral in lower or upper case, alone or after "Artículo ".
EtiquetasRomanas ==
  {pre \o r : pre \in {<<>>, <<"A","r","t","í","c","u","l","o"," ">>},
              r \in {NumerosRomanos[n] : n \in 1..Len(NumerosRomanos)} \cup {Upper(NumerosRomanos[n]) : n \in 1..Len(NumerosRomanos)}}

\* The labels given to normalizar_numero_articulo: None, the empty str, blanks, up to MaxPalabras words, a roman numeral.
Etiquetas ==
  {NoneVal, <<" "," "," ">>}
  \cup {UnirPalabras(ps) : ps \in UNION {[1..n -> Palabras] : n \in 0..MaxPalabras}}
  \cup EtiquetasRomanas

\* The order-preserving selections of at most max elements of fuente.
Selecciones(fuente, max) ==
  {EnPosiciones(fuente, SelectSeq(Indices(fuente), LAMBDA i : i \in S)) : S \in {T \in SUBSET (1..Len(fuente)) : Cardinality(T) <= max}}

\* An Articulo as extraer_articulos builds it: the references are those of its text and
\* nota_busqueda defaults to None.
NuevoArticulo(display, id_interno, texto, id_parte) == ConReferencias(display, id_interno, texto, id_parte)

\* The articles the lists handed to the search are drawn from.
ArticulosFuente == <<
  NuevoArticulo(<<"A","r","t","í","c","u","l","o"," ","1","5">>, <<"1","5">>, <<"Q","u","i","n","c","e",".">>, <<"7","7">>),
  NuevoArticulo(<<"P","r","i","m","e","r","o"," ","T","r","a","n","s","i","t","o","r","i","o">>, <<"t","1">>, <<"L","e","y"," ","1","5"," ","r","i","g","e",".">>, <<"7","8">>),
  NuevoArticulo(<<"A","r","t","."," ","3"," ","b","i","s">>, <<"3","b","i","s">>, <<>>, NoneVal),
  NuevoArticulo(<<"S","/","N">>, <<"s","/","n">>, <<"S","i","n"," ","1","5",".">>, <<"1","5">>),
  NuevoArticulo(<<"F","i","n","a","l">>, <<"f","i","n","a","l">>, <<"V","e","r"," ","a","r","t","."," ","1"," ","r","i","g","e">>, <<"8","0">>) >>

\* The values of the articulo parameter.
Consultas == {<<"1","5">>, <<"A","R","T","Í","C","U","L","O"," ","1","5">>, <<"P","r","i","m","e","r","o"," ","T","r","a","n","s","i","t","o","r","i","o">>, <<" ","3"," ","B","I","S">>, <<"7","8">>, <<"r","i","g","e">>, <<"9","9">>, <<"a","r","t",".">>, <<" "," "," ">>, <<"!","!","!">>, <<"N","o","n","e">>}

\* An EstructuraFuncional: its tipoParte and idParte attributes and the text of its
\* Metadatos/TituloParte, Metadatos/NombreParte and Texto children (NoneVal when absent or without text).
Nodo(tipo, id_parte, titulo, nombre, texto) ==
  [tipoParte |-> tipo, idParte |-> id_parte, TituloParte |-> titulo, NombreParte |-> nombre, Texto |-> texto]

\* The nodes the documents are drawn from.
NodosFuente == <<
  Nodo("Artículo", <<"7","7">>, <<"A","r","t","í","c","u","l","o"," ","1">>, NoneVal, <<"A","r","t","í","c","u","l","o"," ","1",".","-"," ","L","e","y"," ","r","i","g","e",".">>),
  Nodo("Artículo", <<"7","8">>, <<"A","r","t","í","c","u","l","o"," ","1"," ","b","i","s">>, NoneVal, <<"T","e","x","t","o"," ","b","i","s",".">>),
  Nodo("Artículo", <<"7","9">>, NoneVal, <<"A","r","t","í","c","u","l","o"," ","F","i","n","a","l">>, <<"F","i","n",".">>),
  Nodo("Artículo", <<"8","0">>, NoneVal, NoneVal, <<"A","r","t","í","c","u","l","o"," ","1","5",".","-"," ","Q","u","i","n","c","e",".">>),
  Nodo("Artículo", <<"8","1">>, NoneVal, NoneVal, <<"A","r","t","í","c","u","l","o"," ","t","r","a","n","s","i","t","o","r","i","o",".","-"," ","U","n","o",".">>),
  Nodo("Artículo", NoneVal, <<"P","r","i","m","e","r","o"," ","T","r","a","n","s","i","t","o","r","i","o">>, NoneVal, NoneVal),
  Nodo("Título", <<"8","2">>, <<"T","í","t","u","l","o"," ","I">>, NoneVal, <<"N","o","r","m","a","s",".">>),
  Nodo("Artículo", <<"8","3">>, NoneVal, NoneVal, NoneVal),
  Nodo("Artículo", <<"8","4">>, NoneVal, NoneVal, <<"A","r","t","í","c","u","l","o">>),
  Nodo("Artículo", <<"8","5">>, <<"A","r","t","í","c","u","l","o"," ","2">>, NoneVal, <<"A","r","t","í","c","u","l","o"," ","2",".","-"," ","R","i","g","e"," ","l","a"," ","L","e","y"," ","1"," ","y"," ","e","l"," ","D","F","L"," ","N","°"," ","2",".">>),
  Nodo("Artículo", <<"8","6">>, <<"A","r","t","í","c","u","l","o"," ","3">>, NoneVal, <<"A","r","t","í","c","u","l","o"," ","3",".","-"," ","L","a"," ","L","e","y"," ","N","°"," ","2","1","5","9","5",","," ","e","n"," ","a","d","e","l","a","n","t","e"," ","l","a"," ","L","e","y"," ","N","°"," ","2","1","5","9","5",".">>) >>

\* A document: whether ET.fromstring parses it, and its EstructuraFuncional nodes in document order.
Documentos ==
  {[bien_formado |-> TRUE, nodos |-> ns] : ns \in Selecciones(NodosFuente, MaxNodos)}
  \cup {[bien_formado |-> FALSE, nodos |-> <<>>]}

(***************************************************************************)
(* State                                                                   *)
(***************************************************************************)

VARIABLES
  pc,                \* where the run is
  num_str,           \* the argument of normalizar_numero_articulo
  id_interno,        \* its result
  id_renormalizado,  \* the result of normalizing id_interno again
  xml_content,       \* the document given to extraer_articulos
  articulos,         \* the list of Articulo objects
  articulo_buscado,  \* the articulo parameter
  respuesta,         \* what the call returns or raises
  log,               \* the last message logged by the search
  numero_ley,        \* the numero_ley parameter of GET /ley
  cache_id_norma,    \* the TTLCache of idNorma by law number
  cache_xml_ley,     \* the TTLCache of XML by idNorma
  upstream           \* what leychile.cl serves

vars == <<pc, num_str, id_interno, id_renormalizado, xml_content, articulos, articulo_buscado, respuesta, log,
          numero_ley, cache_id_norma, cache_xml_ley, upstream>>

\* The state of the service, which the calls of the functions alone leave as it is.
servicio == <<numero_ley, cache_id_norma, cache_xml_ley, upstream>>

\* The TTLCache objects are created empty.
CacheVacio == [k \in {} |-> NoneVal]

\* No request and no web service around the call of a function.
SinServicio ==
  /\ numero_ley = NoneVal
  /\ cache_id_norma = CacheVacio
  /\ cache_xml_ley = CacheVacio
  /\ upstream = NoneVal

\* No answer yet.
SinRespuesta == [status |-> 0, devueltos |-> <<>>, detail |-> SinDetalle]

\* The document before any is given.
SinDocumento == [bien_formado |-> TRUE, nodos |-> <<>>]

(***************************************************************************)
(* normalizar_numero_articulo called on a label, then on its own result    *)
(***************************************************************************)

InitNorm ==
  /\ pc = "etiqueta"
  /\ num_str \in Etiquetas
  /\ id_interno = NoneVal
  /\ id_renormalizado = NoneVal
  /\ xml_content = SinDocumento
  /\ articulos = <<>>
  /\ articulo_buscado = NoneVal
  /\ respuesta = SinRespuesta
  /\ log = ""
  /\ SinServicio

Normalizar ==
  /\ pc = "etiqueta"
  /\ id_interno' = normalizar_numero_articulo(num_str)
  /\ pc' = "normalizado"
  /\ UNCHANGED <<num_str, id_renormalizado, xml_content, articulos, articulo_buscado, respuesta, log, servicio>>

Renormalizar ==
  /\ pc = "normalizado"
  /\ id_renormalizado' = normalizar_numero_articulo(id_interno)
  /\ pc' = "renormalizado"
  /\ UNCHANGED <<num_str, id_interno, xml_content, articulos, articulo_buscado, respuesta, log, servicio>>

NextNorm == Normalizar \/ Renormalizar

SpecNorm == InitNorm /\ [][NextNorm]_vars

(***************************************************************************)
(* buscar_articulo_avanzado called on a list of articles                   *)
(***************************************************************************)

InitBuscar ==
  /\ pc = "articulos"
  /\ num_str = NoneVal
  /\ id_interno = NoneVal
  /\ id_renormalizado = NoneVal
  /\ xml_content = SinDocumento
  /\ articulos \in Selecciones(ArticulosFuente, MaxArticulos)
  /\ articulo_buscado = NoneVal
  /\ respuesta = SinRespuesta
  /\ log = ""
  /\ SinServicio

\* The answer r of the search: the notes written on the objects of the list, the response and the log.
Responder(r) ==
  /\ articulos' = ConNotas(articulos, r.devueltos, r.nota)
  /\ respuesta' = [status |-> r.status, devueltos |-> r.devueltos, detail |-> r.detail]
  /\ log' = r.log

Buscar(articulo) ==
  /\ pc = "articulos"
  /\ articulo_buscado' = articulo
  /\ Responder(buscar_articulo_avanzado(articulos, articulo))
  /\ pc' = "respondido"
  /\ UNCHANGED <<num_str, id_interno, id_renormalizado, xml_content, servicio>>

NextBuscar == \E articulo \in Consultas : Buscar(articulo)

SpecBuscar == InitBuscar /\ [][NextBuscar]_vars

(***************************************************************************)
(* extraer_articulos on a document, then buscar_articulo_avanzado          *)
(***************************************************************************)

Init ==
  /\ pc = "xml"
  /\ num_str = NoneVal
  /\ id_interno = NoneVal
  /\ id_renormalizado = NoneVal
  /\ xml_content \in Documentos
  /\ articulos = <<>>
  /\ articulo_buscado = NoneVal
  /\ respuesta = SinRespuesta
  /\ log = ""
  /\ SinServicio

\* extraer_articulos(xml_content): HTTPException(500) on ET.ParseError, else the list of articles.
Extraer ==
  /\ pc = "xml"
  /\ IF xml_content.bien_formado
     THEN /\ articulos' = extraer_articulos(xml_content.nodos)
          /\ pc' = "articulos"
          /\ UNCHANGED respuesta
     ELSE /\ respuesta' = [status |-> 500, devueltos |-> <<>>, detail |-> SinDetalle]
          /\ pc' = "respondido"
          /\ UNCHANGED articulos
  /\ UNCHANGED <<num_str, id_interno, id_renormalizado, xml_content, articulo_buscado, log, servicio>>

Next == Extraer \/ \E articulo \in Consultas : Buscar(articulo)

Spec == Init /\ [][Next]_vars


(***************************************************************************)
(* GET /ley: consultar_ley with obtener_id_norma and obtener_xml_ley       *)
(***************************************************************************)

\* A call that returns valor.
Devuelve(valor) == [excepcion |-> "", status |-> 0, valor |-> valor]

\* A call that raises: excepcion is the class of the exception, status the status_code of an HTTPException.
Lanza(excepcion, status) == [excepcion |-> excepcion, status |-> status, valor |-> NoneVal]

\* cache[clave] = valor
Guardar(cache, clave, valor) == [k \in (DOMAIN cache) \cup {clave} |-> IF k = clave THEN valor ELSE cache[k]]

\* obtener_id_norma(numero_ley, client): the cached idNorma, else line 179 is evaluated. No line of
\* main.py binds the global name FALLBACK_IDS, so "norm_numero_ley_buscado in FALLBACK_IDS" raises
\* NameError before the try of line 193; the lines after it are never executed.
obtener_id_norma(numero, cache) ==
  IF numero \in DOMAIN cache THEN Devuelve(cache[numero])
  ELSE Lanza("NameError", 0)

\* obtener_xml_ley(id_norma, client): the cached XML, else the body that the web service answers,
\* HTTPException(status) on an HTTP error status and HTTPException(500) on any other failure
\* (servido.xml_status = 0).
obtener_xml_ley(id_norma, cache, servido) ==
  IF id_norma \in DOMAIN cache THEN Devuelve(cache[id_norma])
  ELSE IF servido.xml_status = 200 THEN Devuelve(servido.xml)
  ELSE IF servido.xml_status = 0 THEN Lanza("HTTPException", 500)
  ELSE Lanza("HTTPException", servido.xml_status)

\* cache_xml_ley after obtener_xml_ley: line 246 stores the body fetched.
CacheTrasXml(id_norma, cache, servido) ==
  IF id_norma \notin DOMAIN cache /\ servido.xml_status = 200 THEN Guardar(cache, id_norma, servido.xml) ELSE cache

\* The response of an HTTPException(status_code, detail).
RespuestaError(status_code, detail) ==
  [status |-> status_code, detail |-> detail, ley |-> NoneVal, id_norma |-> NoneVal, articulos_totales_en_respuesta |-> 0,
   articulos |-> <<>>, total_articulos_originales_en_ley |-> NoneVal, nota_truncamiento_lista |-> ""]

\* Lines 452-459: the response 200 with the LeyDetalle.
LeyDetalle(numero, id_norma, articulos_respuesta, total_original, nota_trunc_lista) ==
  [status |-> 200, detail |-> "", ley |-> numero, id_norma |-> id_norma, articulos_totales_en_respuesta |-> Len(articulos_respuesta),
   articulos |-> articulos_respuesta, total_articulos_originales_en_ley |-> total_original, nota_truncamiento_lista |-> nota_trunc_lista]

\* What a request leaves: its response, the XML and the list it worked on, the log of the search and the XML cache.
Fin(r, xml, lista, mensaje, cache_xml) == [respuesta |-> r, xml_content |-> xml, articulos |-> lista, log |-> mensaje, cache_xml_ley |-> cache_xml]

\* Lines 444-459 with an articulo: the 404 of the search, else the objects it returned, with their notes.
TrasBuscar(numero, id_norma, xml, lista, cache_xml, r) ==
  IF r.status = 404 THEN Fin(RespuestaError(404, "Artículo no encontrado"), xml, lista, r.log, cache_xml)
  ELSE Fin(LeyDetalle(numero, id_norma, EnPosiciones(ConNotas(lista, r.devueltos, r.nota), r.devueltos), NoneVal, ""),
           xml, ConNotas(lista, r.devueltos, r.nota), r.log, cache_xml)

\* Lines 434-459: 404 without articles; the search when articulo is given and not empty; else the
\* whole list, cut at MAX_ARTICULOS_RETURNED.
TrasExtraer(numero, articulo, id_norma, xml, lista, cache_xml) ==
  IF lista = <<>> THEN Fin(RespuestaError(404, "No se extrajeron artículos"), xml, lista, "", cache_xml)
  ELSE IF articulo # NoneVal /\ articulo # <<>>
  THEN TrasBuscar(numero, id_norma, xml, lista, cache_xml, buscar_articulo_avanzado(lista, articulo))
  ELSE IF Len(lista) > MAX_ARTICULOS_RETURNED
  THEN Fin(LeyDetalle(numero, id_norma, SubSeq(lista, 1, MAX_ARTICULOS_RETURNED), Len(lista), "Mostrando los primeros"), xml, lista, "", cache_xml)
  ELSE Fin(LeyDetalle(numero, id_norma, lista, Len(lista), ""), xml, lista, "", cache_xml)

\* Lines 421-432: the HTTPException of obtener_xml_ley is raised again, an empty body is a 503 and
\* a body that does not parse a 500.
TrasXml(numero, articulo, id_norma, cache_xml, r) ==
  IF r.excepcion # "" THEN Fin(RespuestaError(r.status, "No se pudo obtener XML"), SinDocumento, <<>>, "", cache_xml)
  ELSE IF r.valor.vacio THEN Fin(RespuestaError(503, "No se pudo obtener XML"), SinDocumento, <<>>, "", cache_xml)
  ELSE IF ~r.valor.documento.bien_formado THEN Fin(RespuestaError(500, "El XML recibido de LeyChile está malformado"), r.valor.documento, <<>>, "", cache_xml)
  ELSE TrasExtraer(numero, articulo, id_norma, r.valor.documento, extraer_articulos(r.valor.documento.nodos), cache_xml)

\* Lines 404-419: the HTTPException of obtener_id_norma is raised again, any other exception
\* becomes an HTTPException(500), an empty idNorma a 404.
TrasIdNorma(numero, articulo, cache_xml, servido, r) ==
  IF r.excepcion = "HTTPException" THEN Fin(RespuestaError(r.status, "Error al obtener IdNorma"), SinDocumento, <<>>, "", cache_xml)
  ELSE IF r.excepcion # "" THEN Fin(RespuestaError(500, "Error interno obteniendo ID de norma"), SinDocumento, <<>>, "", cache_xml)
  ELSE IF r.valor = <<>> THEN Fin(RespuestaError(404, "No se encontró ID para la ley"), SinDocumento, <<>>, "", cache_xml)
  ELSE TrasXml(numero, articulo, r.valor, CacheTrasXml(r.valor, cache_xml, servido), obtener_xml_ley(r.valor, cache_xml, servido))

\* consultar_ley(numero_ley, articulo)
consultar_ley(numero, articulo, cache_id, cache_xml, servido) ==
  TrasIdNorma(numero, articulo, cache_xml, servido, obtener_id_norma(numero, cache_id))

\* The values of the numero_ley parameter.
NumerosDeLey == {<<"2","1","5","9","5">>, <<"2","0",".","0","0","0">>}

\* The values of the articulo parameter of GET /ley: absent, empty or an identifier.
ArticulosPedidos == {NoneVal, <<>>, <<"1">>, <<"1","5">>, <<"F","i","n","a","l">>}

\* The idNorma that the redirection of leychile.cl carries.
IdNormaServido == <<"1","1","9","5","1","1","9">>

\* What leychile.cl serves: the status of the idLey navigation and the idNorma of its final URL
\* (NoneVal if it has none), the status of the XML web service (0 when the request fails) and its body.
Servidos ==
  {[navegar_status |-> n.status, navegar_id_norma |-> n.id_norma, xml_status |-> x.status, xml |-> [vacio |-> x.vacio, documento |-> doc]] :
     n \in {[status |-> 200, id_norma |-> IdNormaServido], [status |-> 200, id_norma |-> NoneVal], [status |-> 404, id_norma |-> NoneVal]},
     x \in {[status |-> 200, vacio |-> FALSE], [status |-> 200, vacio |-> TRUE], [status |-> 500, vacio |-> TRUE], [status |-> 0, vacio |-> TRUE]},
     doc \in Documentos}

InitLey ==
  /\ pc = "servicio"
  /\ num_str = NoneVal
  /\ id_interno = NoneVal
  /\ id_renormalizado = NoneVal
  /\ xml_content = SinDocumento
  /\ articulos = <<>>
  /\ articulo_buscado = NoneVal
  /\ respuesta = SinRespuesta
  /\ log = ""
  /\ numero_ley = NoneVal
  /\ cache_id_norma = CacheVacio
  /\ cache_xml_ley = CacheVacio
  /\ upstream \in Servidos

\* The state that the request leaves.
Entregar(r) ==
  /\ respuesta' = r.respuesta
  /\ xml_content' = r.xml_content
  /\ articulos' = r.articulos
  /\ log' = r.log
  /\ cache_xml_ley' = r.cache_xml_ley

\* GET /ley?numero_ley=numero&articulo=articulo
ConsultarLey(numero, articulo) ==
  /\ pc = "servicio"
  /\ numero_ley' = numero
  /\ articulo_buscado' = articulo
  /\ Entregar(consultar_ley(numero, articulo, cache_id_norma, cache_xml_ley, upstream))
  /\ UNCHANGED <<pc, num_str, id_interno, id_renormalizado, cache_id_norma, upstream>>

NextLey == \E numero \in NumerosDeLey, articulo \in ArticulosPedidos : ConsultarLey(numero, articulo)

SpecLey == InitLey /\ [][NextLey]_vars
(***************************************************************************)
(* Properties of buscar_articulo_avanzado                                  *)
(***************************************************************************)

\* buscar_articulo_avanzado has answered the query articulo_buscado.
Respondido == pc = "respondido" /\ articulo_buscado # NoneVal

\* The positions returned.
Devueltos == {respuesta.devueltos[k] : k \in 1..Len(respuesta.devueltos)}

\* The positions whose canonical id is the normalized query.
Canonicos == {i \in 1..Len(articulos) : articulos[i].articulo_id_interno = normalizar_numero_articulo(articulo_buscado)}

\* The positions whose display equals the query, ignoring case and surrounding blanks.
DisplaysIguales == {i \in 1..Len(articulos) : Lower(Strip(articulos[i].articulo_display)) = Lower(Strip(articulo_buscado))}

\* The positions whose id_parte_xml is the query, a query of digits.
Posicionales == {i \in 1..Len(articulos) : IsDigit(articulo_buscado) /\ articulos[i].id_parte_xml = articulo_buscado}

\* The positions whose text or display contains the query, or whose text contains its normalized form.
Textuales ==
  LET consulta == Lower(Strip(articulo_buscado))
      normalizado == normalizar_numero_articulo(articulo_buscado)
  IN {i \in 1..Len(articulos) : \/ Contains(Lower(articulos[i].texto), consulta)
                                \/ Contains(Lower(articulos[i].articulo_display), consulta)
                                \/ (normalizado \notin {S_N, S_N_ERROR} /\ Contains(Lower(articulos[i].texto), normalizado))}

\* C1: when normalizing the query gives the error sentinel, the search reports a client-input error:
\* it neither returns a list of matches (200) nor the not-found diagnostic (404).
C1_ConsultaInvalidaEsErrorDeEntrada ==
  (Respondido /\ normalizar_numero_articulo(articulo_buscado) = S_N_ERROR) => respuesta.status \notin {200, 404}

\* C2: the search returns exactly the matches of the first of canonical id, display, id_parte_xml and
\* textual search that matches anything, in list order, answered by that step; it answers 404 exactly
\* when none of the four matches, and a 200 answer is never an empty list.
C2_GanaLaPrimeraEstrategiaNoVacia ==
  Respondido =>
    /\ Devueltos = (IF Canonicos # {} THEN Canonicos
                    ELSE IF DisplaysIguales # {} THEN DisplaysIguales
                    ELSE IF Posicionales # {} THEN Posicionales
                    ELSE Textuales)
    /\ Len(respuesta.devueltos) = Cardinality(Devueltos)
    /\ \A k \in 1..(Len(respuesta.devueltos) - 1) : respuesta.devueltos[k] < respuesta.devueltos[k + 1]
    /\ log = (IF Canonicos # {} THEN LogIdInterno
              ELSE IF DisplaysIguales # {} THEN LogDisplay
              ELSE IF Posicionales # {} THEN LogIdParte
              ELSE IF Textuales # {} THEN LogTexto
              ELSE LogNoEncontrado)
    /\ (respuesta.status = 404) <=> (Canonicos = {} /\ DisplaysIguales = {} /\ Posicionales = {} /\ Textuales = {})
    /\ respuesta.status \in {200, 404}
    /\ (respuesta.status = 200) <=> (respuesta.devueltos # <<>>)

\* A query of digits answered by id_parte_xml although the textual search matches other articles too.
C2_RespondeIdParteAntesQueTexto ==
  /\ Respondido
  /\ log = LogIdParte
  /\ Devueltos = Posicionales
  /\ Canonicos = {} /\ DisplaysIguales = {}
  /\ Textuales # {} /\ Textuales # Posicionales

\* The list is the example's: canonical ids "15" and "t1", displays "Artículo 15" and "Primero Transitorio".
EsElEjemplo ==
  /\ Len(articulos) = 2
  /\ articulos[1].articulo_id_interno = <<"1","5">> /\ articulos[1].articulo_display = <<"A","r","t","í","c","u","l","o"," ","1","5">>
  /\ articulos[2].articulo_id_interno = <<"t","1">> /\ articulos[2].articulo_display = <<"P","r","i","m","e","r","o"," ","T","r","a","n","s","i","t","o","r","i","o">>

\* C3 as stated: on the example's list the query "15" returns the first record without a note, and
\* the query "ARTÍCULO 15" returns the first record by the display match, with a note.
C3_Articulo15PorDisplayConNota ==
  (Respondido /\ EsElEjemplo) =>
    /\ (articulo_buscado = <<"1","5">>) => (respuesta.devueltos = <<1>> /\ articulos[1].nota_busqueda = NoneVal)
    /\ (articulo_buscado = <<"A","R","T","Í","C","U","L","O"," ","1","5">>) => (respuesta.devueltos = <<1>> /\ log = LogDisplay /\ articulos[1].nota_busqueda # NoneVal)

\* C3: on the example's list the queries "15" and "ARTÍCULO 15" both return the first record alone, by
\* the match on the canonical id, and the record carries no note.
C3_Articulo15PorIdInternoSinNota ==
  (Respondido /\ EsElEjemplo /\ articulo_buscado \in {<<"1","5">>, <<"A","R","T","Í","C","U","L","O"," ","1","5">>}) =>
    (respuesta.status = 200 /\ respuesta.devueltos = <<1>> /\ log = LogIdInterno /\ articulos[1].nota_busqueda = NoneVal)

\* The query "ARTÍCULO 15" answered on the example's list with the first record.
C3_ConsultaEnMayusculas ==
  Respondido /\ EsElEjemplo /\ articulo_buscado = <<"A","R","T","Í","C","U","L","O"," ","1","5">> /\ respuesta.devueltos = <<1>>

ContieneDigito(s) == \E i \in 1..Len(s) : s[i] \in Digitos

\* C5 as stated: for every label, normalizing the canonical form again returns it unchanged.
C5_Idempotente == (pc = "renormalizado") => (id_renormalizado = id_interno)

\* C5: for every label whose canonical form has a decimal digit, normalizing the canonical form
\* again returns it unchanged.
C5_IdempotenteConDigito == (pc = "renormalizado" /\ ContieneDigito(id_interno)) => (id_renormalizado = id_interno)

\* "Transitorio 5" normalized to "t5", and "t5" normalized again.
C5_TransitorioRenormalizado ==
  pc = "renormalizado" /\ num_str = <<"T","r","a","n","s","i","t","o","r","i","o"," ","5">> /\ id_interno = <<"t","5">> /\ id_renormalizado = <<"t","5">>

\* The roman numeral of a label of EtiquetasRomanas, in lower case.
RomanoDe(etiqueta) == Lower(IF StartsWithI(etiqueta, <<"a","r","t","í","c","u","l","o"," ">>) THEN Desde(etiqueta, Len(<<"a","r","t","í","c","u","l","o"," ">>)) ELSE etiqueta)

\* The value of a roman numeral from i to xx.
ValorRomano(r) == CHOOSE n \in 1..Len(NumerosRomanos) : NumerosRomanos[n] = r

\* C6: every roman numeral from i to xx, in upper or lower case, with or without "Artículo " before
\* it, normalizes to the decimal string of its value.
C6_RomanosADecimal ==
  (pc # "etiqueta" /\ num_str \in EtiquetasRomanas) => (id_interno = Str(ValorRomano(RomanoDe(num_str))))

\* C7: "Primero Transitorio" normalizes to "t1" and "Transitorio 5" normalizes to "t5".
C7_TransitorioAntesODespues ==
  (pc # "etiqueta") =>
    /\ (num_str = <<"P","r","i","m","e","r","o"," ","T","r","a","n","s","i","t","o","r","i","o">>) => (id_interno = <<"t","1">>)
    /\ (num_str = <<"T","r","a","n","s","i","t","o","r","i","o"," ","5">>) => (id_interno = <<"t","5">>)

\* Whether s is a non-empty str without a letter or a digit.
SoloSimbolos(s) == s # NoneVal /\ s # <<>> /\ \A i \in 1..Len(s) : s[i] \notin (Letras \cup Digitos)

\* C8: the result is the no-number value exactly when the input is None or empty, and it is the
\* error value for every non-empty input without a letter or a digit.
C8_SinNumeroYError ==
  (pc # "etiqueta") =>
    /\ (id_interno = S_N) <=> (num_str \in {NoneVal, <<>>})
    /\ SoloSimbolos(num_str) => (id_interno = S_N_ERROR)

(***************************************************************************)
(* Properties of extraer_articulos                                         *)
(***************************************************************************)

\* extraer_articulos has returned the list of a well-formed document.
Extraido == pc # "xml" /\ xml_content.bien_formado

\* The article nodes of the document, in document order.
NodosArticulo == SelectSeq(xml_content.nodos, LAMBDA ef : ef.tipoParte = "Artículo")

\* The article nodes whose label does not normalize to the error value.
NodosNormalizables == SelectSeq(NodosArticulo, LAMBDA ef : normalizar_numero_articulo(NumeroDisplay(ef)) # S_N_ERROR)

\* C9: the list of a well-formed document has no record whose canonical id is the error value; the
\* records are those of the article nodes whose label does not normalize to it, one each, in
\* document order.
C9_SinIdDeError ==
  Extraido =>
    LET normalizables == NodosNormalizables
    IN /\ \A i \in 1..Len(articulos) : articulos[i].articulo_id_interno # S_N_ERROR
       /\ Len(articulos) = Len(normalizables)
       /\ \A i \in 1..Len(articulos) :
            /\ articulos[i].id_parte_xml = normalizables[i].idParte
            /\ articulos[i].articulo_display = NumeroDisplay(normalizables[i])

\* A document of three article nodes of which one is skipped and the other two give their records.
C9_UnNodoOmitido ==
  Extraido /\ Len(NodosArticulo) = 3 /\ Len(NodosNormalizables) = 2 /\ Len(articulos) = 2

\* The label that the metadata of a node declares.
EtiquetaDeclarada(ef) == IF ef.TituloParte # NoneVal THEN ef.TituloParte ELSE ef.NombreParte

\* C10: a document of three article nodes labelled "Artículo 1", "Artículo 1 bis" and
\* "Artículo Final", each with a body, gives three records with the canonical ids "1", "1bis" and
\* "final", in this order.
C10_TresArticulosEnOrden ==
  ( /\ Extraido
    /\ Len(xml_content.nodos) = 3
    /\ \A i \in 1..3 : xml_content.nodos[i].tipoParte = "Artículo" /\ xml_content.nodos[i].Texto \notin {NoneVal, <<>>}
    /\ [i \in 1..3 |-> EtiquetaDeclarada(xml_content.nodos[i])] = <<<<"A","r","t","í","c","u","l","o"," ","1">>, <<"A","r","t","í","c","u","l","o"," ","1"," ","b","i","s">>, <<"A","r","t","í","c","u","l","o"," ","F","i","n","a","l">>>> )
  => ([i \in 1..Len(articulos) |-> articulos[i].articulo_id_interno] = <<<<"1">>, <<"1","b","i","s">>, <<"f","i","n","a","l">>>>)


\* C11: every record of the list of a well-formed document has a display that is not the empty
\* str: a node without a recoverable label gets "S/N" or the "IDParte-" label built from its idParte.
C11_DisplayNuncaVacio ==
  Extraido => \A i \in 1..Len(articulos) : articulos[i].articulo_display # <<>>

(***************************************************************************)
(* Properties of extraer_referencias_legales                               *)
(***************************************************************************)

\* Punctuation that may surround a citation.
Puntuacion == {".", ",", ";", ":", "(", ")", "-"}

\* C12: every reference of every record of the list of a well-formed document is longer than 5
\* characters once the punctuation and the whitespace around it are trimmed.
C12_ReferenciasDeMasDeCinco ==
  Extraido => \A i \in 1..Len(articulos) : \A r \in articulos[i].referencias_legales :
                Len(StripChars(r, Puntuacion \cup Espacios)) > 5

\* The citation "Ley N° 21595".
LeyN21595 == <<"L","e","y"," ","N","°"," ","2","1","5","9","5">>

\* How many times sub occurs in s.
Ocurrencias(s, sub) == Cardinality({i \in 1..(Len(s) - Len(sub) + 1) : SubSeq(s, i, i + Len(sub) - 1) = sub})

\* C13: a record whose text holds the citation "Ley N° 21595" twice, and no other citation, has
\* exactly one reference.
C13_CitaRepetidaUnaReferencia ==
  Extraido => \A i \in 1..Len(articulos) :
                (Ocurrencias(articulos[i].texto, LeyN21595) = 2 /\ Len(Citas(articulos[i].texto)) = 2)
                  => Cardinality(articulos[i].referencias_legales) = 1

(***************************************************************************)
(* Properties of GET /ley                                                  *)
(***************************************************************************)

\* leychile.cl answers the navigation with an idNorma and the web service with a well-formed XML.
SirveBien ==
  /\ upstream.navegar_status = 200 /\ upstream.navegar_id_norma # NoneVal
  /\ upstream.xml_status = 200 /\ ~upstream.xml.vacio /\ upstream.xml.documento.bien_formado

\* How many articles of the XML served the search returns for an articulo.
Coincidentes(articulo) == Len(buscar_articulo_avanzado(extraer_articulos(upstream.xml.documento.nodos), articulo).devueltos)

\* C14: a request GET /ley with a law number that is not in cache_id_norma and an articulo, when
\* leychile.cl serves the idNorma and the XML and exactly one article of the XML matches the
\* articulo, is answered 200 with the requested number as ley, one article counted and listed,
\* and a text that is not empty.
C14_LeyYArticuloResponde200 ==
  [][\A numero \in NumerosDeLey, articulo \in ArticulosPedidos \ {NoneVal, <<>>} :
       ( /\ ConsultarLey(numero, articulo)
         /\ numero \notin DOMAIN cache_id_norma
         /\ SirveBien
         /\ Coincidentes(articulo) = 1 )
       => /\ respuesta'.status = 200
          /\ respuesta'.ley = numero
          /\ respuesta'.articulos_totales_en_respuesta = 1
          /\ Len(respuesta'.articulos) = 1
          /\ respuesta'.articulos[1].texto # <<>>]_vars

(***************************************************************************)
(* Metadata labels                                                         *)
(***************************************************************************)

\* Whether a metadata child of a node has text that is not blank.
ConTexto(t) == t # NoneVal /\ Strip(t) # <<>>

\* The label that the metadata of a node declares, TituloParte before NombreParte; NoneVal if none.
EtiquetaDeMetadatos(ef) ==
  IF ConTexto(ef.TituloParte) THEN ef.TituloParte
  ELSE IF ConTexto(ef.NombreParte) THEN ef.NombreParte
  ELSE NoneVal

\* C15: the record of every article node whose metadata declares a label has that label, cleaned
\* of surplus whitespace, as its display, whether the label is a plain number or not.
C15_DisplayEsLaEtiquetaDeclarada ==
  Extraido =>
    LET normalizables == NodosNormalizables
    IN \A i \in 1..Len(articulos) :
         EtiquetaDeMetadatos(normalizables[i]) # NoneVal
           => articulos[i].articulo_display = limpiar_texto(EtiquetaDeMetadatos(normalizables[i]))

(***************************************************************************)
(* The transitorio prefix                                                  *)
(***************************************************************************)

\* The label in lower case, without its leading "artículo"-like prefix and its trailing full stops and hyphens.
SinPrefijoDeNumero(etiqueta) == Strip(RStripChars(Strip(QuitarPrefijoNumero(Strip(Lower(etiqueta)))), {".", "-"}))

\* Whether s starts with "transitorio", "trans." or a bare "t" followed by whitespace.
EmpiezaConTransitorio(s) ==
  \/ StartsWithI(s, <<"t","r","a","n","s","i","t","o","r","i","o">>)
  \/ StartsWithI(s, <<"t","r","a","n","s",".">>)
  \/ (StartsWithI(s, <<"t">>) /\ Len(s) >= 2 /\ s[2] \in Espacios)

\* Whether s is a word that starts with the letter t, or starts with one, without starting with a
\* transitorio mark.
SoloEmpiezaConT(s) ==
  /\ StartsWithI(s, <<"t">>) /\ Len(s) >= 2 /\ s[2] \in CaracteresPalabra
  /\ ~EmpiezaConTransitorio(s)

\* C16: a label that only begins with the letter t is normalized without the "t" prefix, as the
\* steps after the detection of the prefix normalize it, with its ordinal words replaced by
\* their digits: "tercero bis" gives "3bis".
C16_SinPrefijoPorEmpezarConT ==
  (pc # "etiqueta" /\ num_str # NoneVal) =>
    /\ (/\ SoloEmpiezaConT(SinPrefijoDeNumero(num_str))
        /\ ~InDict(WORDS_TO_INT, SinPrefijoDeNumero(num_str))
        /\ ~InDict(ROMAN_TO_INT, SinPrefijoDeNumero(num_str)))
         => id_interno = TrasTransitorio(<<>>, SinPrefijoDeNumero(num_str))
    /\ (num_str = <<"t","e","r","c","e","r","o"," ","b","i","s">>) => (id_interno = <<"3","b","i","s">>)

(***************************************************************************)
(* The list handed to buscar_articulo_avanzado                             *)
(***************************************************************************)

\* C17: a call of buscar_articulo_avanzado leaves every field of every Articulo of the list it
\* is given as it was before the call, whatever the query and the step that answers.
C17_BuscarNoCambiaLaLista ==
  [][(\E articulo \in Consultas : Buscar(articulo)) => articulos' = articulos]_vars
====
